---- MODULE Spec2Model ----
(***************************************************************************)
(* Streak scanning and caching engine of CryptoTradingTool.                *)
(*                                                                         *)
(*   SpecDetect  KuCoinClient.count_consecutive_candles                    *)
(*               (src/core/kucoin_client.py), a pure function of the       *)
(*               provider's answer.                                        *)
(*   SpecEnrich  KuCoinClient.ensure_asset_details_are_loaded, statement   *)
(*               by statement, against a catalog provider that answers,    *)
(*               rate-limits or fails.                                     *)
(*   SpecRank    KuCoinClient.fetch_top_volumes, a pure function of the    *)
(*               ticker snapshot and the limit.                            *)
(*   SpecScan    KuCoinClient.scan_for_candle_streaks and the grouping of  *)
(*               its rows by Worker.run, with the calls made in order.     *)
(*   SpecStale   MainWindow._get_stale_timeframes, a pure function of the  *)
(*               tracked timeframes, the cache and the minute.             *)
(*   Spec        MainWindow (src/interfaces/desktop_app.py): the timer,    *)
(*               the refresh button, the worker threads and the slots the  *)
(*               main thread's event loop runs for them.                   *)
(*   FairSpec    Spec with the scheduling of threads and of the event      *)
(*               loop: what can run, eventually runs.                      *)
(*   FairSpecFewerScans  FairSpec with one scan fewer started.             *)
(***************************************************************************)
EXTENDS Integers, Sequences, FiniteSets, TLC

\* ------------------------------------------------------------------------
\* Bounds of the model
\* ------------------------------------------------------------------------
\* Longest candle window the provider answers with (the forming candle
\* included): 7 gives the six completed candles of the documented scenario.
MaxWindow == 7
\* Number of calls of ensure_asset_details_are_loaded in one run.
MaxCalls == 2
\* The timer fires once a minute; the run is followed for MaxNow minutes.
MaxNow == 2
\* Number of worker threads one run creates.
MaxThreads == 3
\* Most instruments in a ticker snapshot given to fetch_top_volumes, and the
\* largest limit it is called with.
MaxTickers == 3
\* The timeframe labels of the run: the first NumTimeframes of the program's.
NumTimeframes == 2

\* Python's None for a field that holds a string otherwise.
None == "None"
\* Python's None / a value, for a field that holds a number otherwise.
NoValue == <<>>
Some(x) == <<x>>

VARIABLES
    ohlcv,      \* what client.fetch_ohlcv does: answers a candle window, or raises
    det_pc,     \* "call" before count_consecutive_candles ran, "done" after
    streak,     \* the (count, color, last_close) it returned
    \* --- asset metadata cache (KuCoinClient and its files) ---
    asset_details,   \* self.asset_details: code -> {name, icon_path}
    coingecko_map,   \* self.coingecko_map: lower-case code -> canonical id
    map_file,        \* COINGECKO_MAP_FILE: <<>> when absent, else <<its content>>
    details_file,    \* ASSET_DETAILS_FILE: <<>> when absent, else <<its content>>
    icon_files,      \* the icon files that exist under ICON_CACHE_DIR
    e_pc,            \* position inside ensure_asset_details_are_loaded
    e_symbols,       \* its argument top_symbols
    missing,         \* its local missing_currencies
    e_i,             \* number of codes of missing_currencies already processed
    attempt,         \* the retry loop's variable
    e_raised,        \* the code at which an exception escaped the call, or None
    \* --- history of the calls, read by the properties only ---
    call_no,         \* calls started so far
    net,             \* network calls made by the current (or last) call
    n429,            \* 429 responses per code in the current (or last) call
    prev_symbols,    \* <<top_symbols>> of the last call that returned, else <<>>
    prev_processed,  \* whether that call got to process its missing codes
    in_succession,   \* the current call repeats the previous one, nothing in between
    env_changed,     \* an icon file was deleted since the last call started
    fallback_final,  \* codes with a fallback entry stored by an earlier call
    e_log,           \* the lines the current (or last) call handed to log_callback
    n_saved,         \* how often the current (or last) call wrote ASSET_DETAILS_FILE
    slept,           \* the time.sleep calls of the current (or last) call, in order
    \* --- main window, worker threads, event loop ---
    g_pc,            \* "init" inside MainWindow.__init__, "exec" in app.exec()
    now,             \* datetime.now(), in minutes
    cached_results,  \* self.cached_results: timeframe -> {timestamp, data}
    worker_thread,   \* self.worker_thread (self.worker goes with it): a thread or NoThread
    threads,         \* the QThread objects created so far and their workers
    n_threads,       \* how many were created
    main_queue,      \* slot calls posted to the main thread's event loop
    refresh_enabled, \* refresh_button.isEnabled()
    aborted,         \* the process was aborted (a running QThread was destroyed)
    last_scan,       \* per timeframe <<{timestamp, data}>> of the last completed scan of it
    progress_bar,    \* progress_bar.value()
    log_dialog,      \* the lines of log_dialog.log_text_edit
    \* --- one call of scan_for_candle_streaks ---
    sc_pc,           \* "call" before scan_for_candle_streaks ran, "done" after
    sc_tickers,      \* what client.fetch_tickers does: answers a snapshot, or raises
    sc_timeframes,   \* its argument timeframes
    sc_answers,      \* what client.fetch_ohlcv does for each (symbol, timeframe)
    sc_ensure_raises, \* whether ensure_asset_details_are_loaded raises in it
    sc_result,       \* what it returned and what it did, in order
    sc_emitted,      \* <<>>, or <<newly_scanned_results>> that Worker.run emitted
    \* --- one call of fetch_top_volumes ---
    rk_pc,           \* "call" before fetch_top_volumes ran, "done" after
    rk_tickers,      \* what client.fetch_tickers does: answers a snapshot, or raises
    rk_limit,        \* its argument limit
    rk_symbols,      \* the list it returned
    \* --- one call of _get_stale_timeframes ---
    st_pc,           \* "call" before _get_stale_timeframes ran, "done" after
    st_tracked,      \* all_interval
    st_cache,        \* self.cached_results at the call
    st_now,          \* datetime.now() at the call, in minutes
    st_stale,        \* the timeframes it returned
    st_sync          \* what its call of _get_current_sync_timeframes(now) returned

detectVars == <<ohlcv, det_pc, streak>>
enrichVars == <<asset_details, coingecko_map, map_file, details_file, icon_files,
                e_pc, e_symbols, missing, e_i, attempt, e_raised>>
enrichObs == <<call_no, net, n429, prev_symbols, prev_processed, in_succession,
               env_changed, fallback_final, e_log, n_saved, slept>>
guiVars == <<g_pc, now, cached_results, worker_thread, threads, n_threads,
             main_queue, refresh_enabled, aborted, last_scan, progress_bar, log_dialog>>
scanVars == <<sc_pc, sc_tickers, sc_timeframes, sc_answers, sc_ensure_raises, sc_result,
              sc_emitted,
              rk_pc, rk_tickers, rk_limit, rk_symbols>>
staleVars == <<st_pc, st_tracked, st_cache, st_now, st_stale, st_sync>>
vars == <<detectVars, enrichVars, enrichObs, guiVars, scanVars, staleVars>>

\* ------------------------------------------------------------------------
\* Candle streak detector: KuCoinClient.count_consecutive_candles
\* ------------------------------------------------------------------------
\* The detector compares a candle's close with its open and copies one
\* close; two price levels give every ordering (close <, =, > open).
PriceLevels == {1, 2}

\* A candle [timestamp, open, high, low, close, volume]: the detector reads
\* candle[1] (open) and candle[4] (close) only.
Candle == [open : PriceLevels, close : PriceLevels]


RECURSIVE SeqsUpTo(_, _)
SeqsUpTo(S, n) ==
    IF n = 0 THEN {<<>>}
    ELSE LET shorter == SeqsUpTo(S, n - 1)
         IN  shorter \cup {Append(s, x) : s \in {t \in shorter : Len(t) = n - 1}, x \in S}

Windows == SeqsUpTo(Candle, MaxWindow)

\* What the provider call does: it answers a window, or it raises.
ProviderAnswers ==
    {[raised |-> FALSE, candles |-> w] : w \in Windows}
        \cup {[raised |-> TRUE, candles |-> <<>>]}

\* color = "green" if candle[4] >= candle[1] else "red"
CandleColorStrict(candle) == IF candle.close > candle.open THEN "green" ELSE "red"
CandleColor(candle) == IF candle.close >= candle.open THEN "green" ELSE "red"

\* completed = ohlcv[:-1]
CompletedKeepForming(window) == window
Completed(window) == SubSeq(window, 1, Len(window) - 1)

\* if i == 0: last_close_price = candle[4], over reversed(completed)
LastClosePriceForming(window) == Some(window[Len(window)].close)
LastClosePrice(window) == Some(Completed(window)[Len(Completed(window))].close)

\* The loop over enumerate(reversed(completed)): i is the loop index, count and
\* last_color the loop's variables; the result is their value when the loop
\* ends, by exhaustion or by break.
RECURSIVE StreakWalkNoBreak(_, _, _, _)
StreakWalkNoBreak(completed, i, count, last_color) ==
    IF i >= Len(completed) THEN [count |-> count, color |-> last_color]
    ELSE LET color == CandleColor(completed[Len(completed) - i])
         IN  IF last_color = None \/ color = last_color
             THEN StreakWalkNoBreak(completed, i + 1, count + 1, color)
             ELSE StreakWalkNoBreak(completed, i + 1, count, last_color)
RECURSIVE StreakWalk(_, _, _, _)
StreakWalk(completed, i, count, last_color) ==
    IF i >= Len(completed) THEN [count |-> count, color |-> last_color]
    ELSE LET color == CandleColor(completed[Len(completed) - i])
         IN  IF last_color = None \/ color = last_color
             THEN StreakWalk(completed, i + 1, count + 1, color)
             ELSE [count |-> count, color |-> last_color]

\* return 0, None, None
NoStreakKeepsClose == [count |-> 0, color |-> None, last_close |-> Some(1)]
NoStreak == [count |-> 0, color |-> None, last_close |-> NoValue]

\* count_consecutive_candles(symbol, timeframe) for the provider answer `answer`.
CountConsecutiveCandles(answer) ==
    IF answer.raised THEN NoStreak                                 \* except Exception
    ELSE IF Len(answer.candles) = 0 THEN NoStreak                  \* if not ohlcv
    ELSE IF Len(Completed(answer.candles)) = 0 THEN NoStreak       \* if not completed
    ELSE LET walk == StreakWalk(Completed(answer.candles), 0, 0, None)
         IN  [count |-> walk.count, color |-> walk.color,
              last_close |-> LastClosePrice(answer.candles)]

\* ------------------------------------------------------------------------
\* Asset metadata cache: KuCoinClient.ensure_asset_details_are_loaded
\* ------------------------------------------------------------------------
\* A symbol "BASE/QUOTE:SETTLE"; s.split('/')[0] is its base currency.
Symbol(base) == [base |-> base, rest |-> "USDT:USDT"]
BaseCurrency(s) == s.base

\* The base currencies of the model: BTC is listed by the catalog, XYZ is not.
Codes == {"BTC", "XYZ"}
Symbols == {Symbol(c) : c \in Codes}

\* code.lower()
Lower(code) == CASE code = "BTC" -> "btc" [] code = "XYZ" -> "xyz" [] OTHER -> code

\* What GET /coins/list answers: a listing of {symbol, id}.
CatalogListing == <<[symbol |-> "btc", id |-> "bitcoin"],
                    [symbol |-> "eth", id |-> "ethereum"]>>
\* coin_data.get('name', code) of GET /coins/{id}
CoinName(code) == IF code = "BTC" THEN "Bitcoin" ELSE code
\* os.path.join(ICON_CACHE_DIR, f"{code}.png")
IconPath(code) == IF code = "BTC" THEN "cache/icons/BTC.png" ELSE "cache/icons/XYZ.png"

EmptyMap == <<>>
Put(f, k, v) == [x \in (DOMAIN f) \cup {k} |-> IF x = k THEN v ELSE f[x]]

\* for coin in response.json(): self.coingecko_map[coin['symbol']] = coin['id'],
\* for the first n entries of the listing.
RECURSIVE MapOfListing(_, _)
MapOfListing(listing, n) ==
    IF n = 0 THEN EmptyMap
    ELSE Put(MapOfListing(listing, n - 1), listing[n].symbol, listing[n].id)

\* {'name': code, 'icon_path': None}
Fallback(code) == [name |-> code, icon_path |-> None]

\* not self.asset_details.get(c) or not self.asset_details[c].get('icon_path')
\*   or not os.path.exists(self.asset_details[c]['icon_path'])
IsMissingExistsInverted(details, icons, c) ==
    \/ c \notin DOMAIN details
    \/ details[c].icon_path = None
    \/ details[c].icon_path \in icons
IsMissing(details, icons, c) ==
    \/ c \notin DOMAIN details
    \/ details[c].icon_path = None
    \/ details[c].icon_path \notin icons

\* base_currencies_to_check = {s.split('/')[0] for s in top_symbols}
BaseCurrenciesToCheck(top_symbols) == {BaseCurrency(s) : s \in top_symbols}

\* The orders in which a list comprehension over a set can enumerate it.
Enumerations(S) ==
    {q \in [1..Cardinality(S) -> S] : \A i, j \in 1..Cardinality(S) : i # j => q[i] # q[j]}

MissingCurrencies(details, icons, top_symbols) ==
    {c \in BaseCurrenciesToCheck(top_symbols) : IsMissing(details, icons, c)}

\* max_retries = 3
max_retries == 3

\* The time.sleep calls, in tenths of a second: 1.2 s before each request
\* (line 90), 61 s after a 429 (line 95), 5 * (attempt + 1) s after a
\* RequestException (line 114).
pacing_tenths == 12
cooldown_tenths == 610
backoff_step_tenths == 50
Sleep(kind, code, loop_attempt, tenths) ==
    [kind |-> kind, code |-> code, attempt |-> loop_attempt + 1, tenths |-> tenths]
Pacing(code, loop_attempt) == Sleep("pacing", code, loop_attempt, pacing_tenths)
Cooldown(code, loop_attempt) == Sleep("cooldown", code, loop_attempt, cooldown_tenths)
Backoff(code, loop_attempt) ==
    Sleep("backoff", code, loop_attempt, backoff_step_tenths * (loop_attempt + 1))

\* The loop variable after a 429: `continue` inside `for attempt in range(max_retries)`.
AttemptAfter429Free(a) == a
AttemptAfter429(a) == a + 1

NoNet == [catalog |-> 0, detail |-> [c \in Codes |-> 0], icon |-> 0]
NetTotal(n) == n.catalog + n.icon + n.detail["BTC"] + n.detail["XYZ"]

\* KuCoinClient.__init__: asset_details from the snapshot (none yet),
\* coingecko_map = {}; the catalog snapshot of an earlier run may exist.
EnrichStart ==
    /\ asset_details = EmptyMap
    /\ coingecko_map = EmptyMap
    /\ details_file = <<>>
    /\ icon_files = {}
    /\ e_pc = "idle"
    /\ e_symbols = {}
    /\ missing = <<>>
    /\ e_i = 0
    /\ attempt = 0
    /\ e_raised = None
    /\ call_no = 0
    /\ net = NoNet
    /\ n429 = [c \in Codes |-> 0]
    /\ prev_symbols = <<>>
    /\ prev_processed = FALSE
    /\ in_succession = FALSE
    /\ env_changed = FALSE
    /\ fallback_final = {}
    /\ e_log = <<>>
    /\ n_saved = 0
    /\ slept = <<>>

\* ------------------------------------------------------------------------
\* Timeframes and threads of the main window
\* ------------------------------------------------------------------------
\* The keys of TIMEFRAME_DURATIONS, in the order written.
TimeframeLabels == <<"15m", "30m", "1h", "2h", "4h", "8h", "1d", "1w">>
\* The labels that exist in the run.
Timeframes == {TimeframeLabels[i] : i \in 1..NumTimeframes}

NoThread == 0
ThreadIds == 1..MaxThreads
NoSuchThread ==
    [state |-> "none", w_pc |-> "none", announced |-> FALSE, timeframes |-> {},
     quit |-> FALSE, universe |-> <<>>, calls |-> <<>>]
\* QProgressBar() before the first setValue.
NoProgress == 0 - 1

\* MainWindow.__init__ up to the initial manual_refresh().
GuiStart ==
    /\ g_pc = "init"
    /\ now = 0
    /\ cached_results = EmptyMap
    /\ worker_thread = NoThread
    /\ threads = [t \in ThreadIds |-> NoSuchThread]
    /\ n_threads = 0
    /\ main_queue = <<>>
    /\ refresh_enabled = TRUE
    /\ aborted = FALSE
    /\ last_scan = [tf \in Timeframes |-> <<>>]
    /\ progress_bar = NoProgress
    /\ log_dialog = <<>>

\* scan_for_candle_streaks has not been called.
NoScan == [raised |-> FALSE, report_data |-> <<>>, trace |-> <<>>]
ScanStart ==
    /\ sc_pc = "call"
    /\ sc_tickers = [raised |-> TRUE, tickers |-> <<>>]
    /\ sc_timeframes = <<>>
    /\ sc_answers = <<>>
    /\ sc_ensure_raises = FALSE
    /\ sc_result = NoScan
    /\ sc_emitted = <<>>
    /\ rk_pc = "call"
    /\ rk_tickers = [raised |-> TRUE, tickers |-> <<>>]
    /\ rk_limit = 0
    /\ rk_symbols = <<>>

\* _get_stale_timeframes has not been called.
StaleStart ==
    /\ st_pc = "call"
    /\ st_tracked = {}
    /\ st_cache = EmptyMap
    /\ st_now = 0
    /\ st_stale = {}
    /\ st_sync = {}

DetectStart ==
    /\ ohlcv = [raised |-> TRUE, candles |-> <<>>]
    /\ det_pc = "call"
    /\ streak = NoStreak

InitDetect ==
    /\ ohlcv \in ProviderAnswers
    /\ det_pc = "call"
    /\ streak = NoStreak
    /\ EnrichStart
    /\ map_file = <<>>
    /\ GuiStart
    /\ ScanStart
    /\ StaleStart

count_consecutive_candles ==
    /\ det_pc = "call"
    /\ streak' = CountConsecutiveCandles(ohlcv)
    /\ det_pc' = "done"
    /\ UNCHANGED <<ohlcv, enrichVars, enrichObs, guiVars, scanVars, staleVars>>

NextDetect == count_consecutive_candles

SpecDetect == InitDetect /\ [][NextDetect]_vars

InitEnrich ==
    /\ DetectStart
    /\ EnrichStart
    /\ GuiStart
    /\ ScanStart
    /\ StaleStart
    /\ map_file \in {<<>>, <<MapOfListing(CatalogListing, Len(CatalogListing))>>}

\* The call returns (normally, or by an escaping exception at code `raised_at`).
Return(processed, raised_at) ==
    /\ e_pc' = "idle"
    /\ e_raised' = raised_at
    /\ prev_symbols' = IF raised_at = None THEN <<e_symbols>> ELSE <<>>
    /\ prev_processed' = (processed /\ raised_at = None)
    /\ fallback_final' =
           {c \in DOMAIN asset_details' : asset_details'[c] = Fallback(c)}

\* Lines 51-66: the missing codes, the early return, the catalog snapshot.
ensure_begin(top_symbols) ==
    /\ e_pc = "idle"
    /\ call_no < MaxCalls
    /\ call_no' = call_no + 1
    /\ e_symbols' = top_symbols
    /\ net' = NoNet
    /\ n429' = [c \in Codes |-> 0]
    /\ in_succession' = (/\ prev_symbols = <<top_symbols>>
                          /\ prev_processed
                          /\ ~env_changed)
    /\ env_changed' = FALSE
    /\ e_i' = 0
    /\ attempt' = 0
    /\ e_raised' = None
    /\ n_saved' = 0
    /\ slept' = <<>>
    /\ \E order \in Enumerations(MissingCurrencies(asset_details, icon_files, top_symbols)) :
          /\ missing' = order
          /\ e_log' = IF Len(order) = 0 THEN <<>>
                      ELSE <<"Found new or missing assets. Fetching details...">>
          /\ IF Len(order) = 0
             THEN /\ UNCHANGED <<asset_details, coingecko_map>>
                  /\ e_pc' = "idle"
                  /\ prev_symbols' = <<top_symbols>>
                  /\ prev_processed' = TRUE
                  /\ UNCHANGED fallback_final
             ELSE /\ UNCHANGED <<asset_details, prev_symbols, prev_processed,
                                 fallback_final>>
                  /\ IF coingecko_map # EmptyMap
                     THEN e_pc' = "loop" /\ UNCHANGED coingecko_map
                     ELSE IF map_file # <<>>
                          THEN e_pc' = "loop" /\ coingecko_map' = map_file[1]
                          ELSE e_pc' = "catalog" /\ UNCHANGED coingecko_map
    /\ UNCHANGED <<map_file, details_file, icon_files, detectVars, guiVars, scanVars, staleVars>>

\* COINGECKO_MAP_FILE after an exception in lines 69-73: pickle.dump (line
\* 75) was not reached.
SnapshotWrittenAnyway(file, partial_map) == <<partial_map>>
SnapshotAfterFailedFetch(file, partial_map) == file

\* Lines 67-78: the catalog is fetched, read into coingecko_map and saved;
\* any exception on the way is logged and the call returns.
fetch_catalog ==
    /\ e_pc = "catalog"
    /\ net' = [net EXCEPT !.catalog = @ + 1]
    /\ LET logged == Append(e_log, "Fetching CoinGecko ID map (one-time operation)...")
           failed == Append(logged, "Fatal Error: Could not fetch CoinGecko ID map")
       IN  \/ \* the listing is read and the snapshot saved
              /\ coingecko_map' = MapOfListing(CatalogListing, Len(CatalogListing))
              /\ map_file' = <<coingecko_map'>>
              /\ e_pc' = "loop"
              /\ e_log' = logged
              /\ UNCHANGED <<asset_details, e_raised, prev_symbols, prev_processed,
                             fallback_final>>
           \/ \* requests.get or raise_for_status raises
              /\ UNCHANGED <<coingecko_map, asset_details>>
              /\ map_file' = SnapshotAfterFailedFetch(map_file, coingecko_map')
              /\ e_log' = failed
              /\ Return(FALSE, None)
           \/ \* an entry of the listing cannot be read: the entries before it stay
              /\ \E n \in 1..(Len(CatalogListing) - 1) :
                    coingecko_map' = MapOfListing(CatalogListing, n)
              /\ map_file' = SnapshotAfterFailedFetch(map_file, coingecko_map')
              /\ UNCHANGED asset_details
              /\ e_log' = failed
              /\ Return(FALSE, None)
           \/ \* the snapshot cannot be written
              /\ coingecko_map' = MapOfListing(CatalogListing, Len(CatalogListing))
              /\ UNCHANGED <<map_file, asset_details>>
              /\ e_log' = failed
              /\ Return(FALSE, None)
    /\ UNCHANGED <<details_file, icon_files, e_symbols, missing, e_i, attempt,
                   call_no, n429, in_succession, env_changed, n_saved, slept,
                   detectVars, guiVars, scanVars, staleVars>>

\* Lines 80-85: the next code; without a canonical id it gets the fallback.
lookup_code ==
    /\ e_pc = "loop"
    /\ e_i < Len(missing)
    /\ LET code == missing[e_i + 1]
       IN  IF Lower(code) \in DOMAIN coingecko_map
           THEN /\ e_pc' = "attempt"
                /\ attempt' = 0
                /\ UNCHANGED <<asset_details, e_i>>
           ELSE /\ asset_details' = Put(asset_details, code, Fallback(code))
                /\ e_i' = e_i + 1
                /\ UNCHANGED <<e_pc, attempt>>
    /\ e_log' = Append(e_log, "Fetching Icon & Name")
    /\ UNCHANGED <<coingecko_map, map_file, details_file, icon_files, e_symbols,
                   missing, e_raised, call_no, net, n429, prev_symbols,
                   prev_processed, in_succession, env_changed, fallback_final,
                   n_saved, slept, detectVars, guiVars, scanVars, staleVars>>

\* After a failed attempt: the next attempt, or (lines 115-117) the fallback
\* and the next code once the attempts are used up.
AfterFailureNoFallback(code, next_attempt, logged) ==
    IF next_attempt < max_retries
    THEN /\ attempt' = next_attempt
         /\ e_log' = logged
         /\ UNCHANGED <<asset_details, e_i, e_pc>>
    ELSE /\ UNCHANGED asset_details
         /\ e_log' = Append(logged, "All attempts failed. Using fallback data.")
         /\ e_i' = e_i + 1
         /\ e_pc' = "loop"
         /\ attempt' = 0
AfterFailure(code, next_attempt, logged) ==
    IF next_attempt < max_retries
    THEN /\ attempt' = next_attempt
         /\ e_log' = logged
         /\ UNCHANGED <<asset_details, e_i, e_pc>>
    ELSE /\ asset_details' = Put(asset_details, code, Fallback(code))
         /\ e_log' = Append(logged, "All attempts failed. Using fallback data.")
         /\ e_i' = e_i + 1
         /\ e_pc' = "loop"
         /\ attempt' = 0

\* Lines 88-114: one pass of the retry loop for the current code.
fetch_attempt ==
    /\ e_pc = "attempt"
    /\ LET code == missing[e_i + 1]
           requested == [net EXCEPT !.detail[code] = @ + 1]
       IN  \/ \* status 429: cooldown, continue
              /\ net' = requested
              /\ n429' = [n429 EXCEPT ![code] = @ + 1]
              /\ AfterFailure(code, AttemptAfter429(attempt),
                              Append(e_log, "Rate limit hit. Waiting 61 seconds..."))
              /\ slept' = slept \o <<Pacing(code, attempt), Cooldown(code, attempt)>>
              /\ UNCHANGED <<icon_files, e_raised, prev_symbols, prev_processed,
                             fallback_final>>
           \/ \* the detail request raises a RequestException: backoff
              /\ net' = requested
              /\ AfterFailure(code, attempt + 1, Append(e_log, "Attempt failed. Retrying..."))
              /\ slept' = slept \o <<Pacing(code, attempt), Backoff(code, attempt)>>
              /\ UNCHANGED <<icon_files, n429, e_raised, prev_symbols,
                             prev_processed, fallback_final>>
           \/ \* details without an icon URL
              /\ net' = requested
              /\ asset_details' = Put(asset_details, code,
                                      [name |-> CoinName(code), icon_path |-> None])
              /\ e_i' = e_i + 1
              /\ e_pc' = "loop"
              /\ attempt' = 0
              /\ slept' = Append(slept, Pacing(code, attempt))
              /\ UNCHANGED <<icon_files, n429, e_raised, prev_symbols,
                             prev_processed, fallback_final, e_log>>
           \/ \* details with an icon URL, the icon is downloaded and written
              /\ net' = [requested EXCEPT !.icon = @ + 1]
              /\ icon_files' = icon_files \cup {IconPath(code)}
              /\ asset_details' = Put(asset_details, code,
                                      [name |-> CoinName(code), icon_path |-> IconPath(code)])
              /\ e_i' = e_i + 1
              /\ e_pc' = "loop"
              /\ attempt' = 0
              /\ slept' = Append(slept, Pacing(code, attempt))
              /\ UNCHANGED <<n429, e_raised, prev_symbols, prev_processed,
                             fallback_final, e_log>>
           \/ \* details with an icon URL, the icon download raises a
              \* RequestException: backoff
              /\ net' = [requested EXCEPT !.icon = @ + 1]
              /\ AfterFailure(code, attempt + 1, Append(e_log, "Attempt failed. Retrying..."))
              /\ slept' = slept \o <<Pacing(code, attempt), Backoff(code, attempt)>>
              /\ UNCHANGED <<icon_files, n429, e_raised, prev_symbols,
                             prev_processed, fallback_final>>
           \/ \* an exception that is no RequestException (the icon file cannot
              \* be written, the payload has another shape) escapes the call
              /\ net' = requested
              /\ UNCHANGED <<asset_details, icon_files, n429, e_i, attempt, e_log>>
              /\ slept' = Append(slept, Pacing(code, attempt))
              /\ Return(FALSE, code)
    /\ UNCHANGED <<coingecko_map, map_file, details_file, e_symbols, missing,
                   call_no, in_succession, env_changed, n_saved,
                   detectVars, guiVars, scanVars, staleVars>>

\* Lines 118-120: the store is saved and the call returns.
persist_details ==
    /\ e_pc = "loop"
    /\ e_i = Len(missing)
    /\ details_file' = <<asset_details>>
    /\ n_saved' = n_saved + 1
    /\ UNCHANGED slept
    /\ e_log' = Append(e_log, "Asset details cache has been updated.")
    /\ UNCHANGED asset_details
    /\ Return(TRUE, None)
    /\ UNCHANGED <<coingecko_map, map_file, icon_files, e_symbols, missing, e_i,
                   attempt, call_no, net, n429, in_succession, env_changed,
                   detectVars, guiVars, scanVars, staleVars>>

\* Somebody deletes an icon file of the cache directory.
icon_file_deleted ==
    /\ \E f \in icon_files : icon_files' = icon_files \ {f}
    /\ env_changed' = TRUE
    /\ UNCHANGED <<asset_details, coingecko_map, map_file, details_file, e_pc,
                   e_symbols, missing, e_i, attempt, e_raised, call_no, net, n429,
                   prev_symbols, prev_processed, in_succession, fallback_final,
                   e_log, n_saved, slept, detectVars, guiVars, scanVars, staleVars>>

NextEnrich ==
    \/ \E top_symbols \in (SUBSET Symbols) \ {{}} : ensure_begin(top_symbols)
    \/ fetch_catalog
    \/ lookup_code
    \/ fetch_attempt
    \/ persist_details
    \/ icon_file_deleted

SpecEnrich == InitEnrich /\ [][NextEnrich]_vars

\* ------------------------------------------------------------------------
\* Main window: timer, refresh button, worker threads, completion slots
\* ------------------------------------------------------------------------
\* TIMEFRAME_DURATIONS, in minutes.
TimeframeDuration(tf) ==
    CASE tf = "15m" -> 15   [] tf = "30m" -> 30   [] tf = "1h" -> 60
      [] tf = "2h" -> 120   [] tf = "4h" -> 240   [] tf = "8h" -> 480
      [] tf = "1d" -> 1440  [] tf = "1w" -> 10080
      [] OTHER -> 0        \* TIMEFRAME_DURATIONS.get(tf, timedelta(0))

\* config.intervals.all_interval: every timeframe is tracked.
all_interval == Timeframes

\* A set of timeframes as the list a loop runs over.
RECURSIVE TimeframeList(_, _)
TimeframeList(tfs, i) ==
    IF i > Len(TimeframeLabels) THEN <<>>
    ELSE IF TimeframeLabels[i] \in tfs
         THEN <<TimeframeLabels[i]>> \o TimeframeList(tfs, i + 1)
         ELSE TimeframeList(tfs, i + 1)

\* MainWindow._get_current_sync_timeframes(now)
CurrentSyncTimeframes(t) ==
    LET minute == t % 60
    IN  (IF minute % 15 = 1 THEN {"15m"} ELSE {})
          \cup (IF minute % 30 = 1 THEN {"30m"} ELSE {})
          \cup (IF minute = 1 THEN {"1h", "2h", "4h", "8h", "1d", "1w"} ELSE {})

\* now - entry.get('timestamp', datetime.min) >= TIMEFRAME_DURATIONS.get(tf, timedelta(0))
IsExpiredStrict(entry, tf, t) == t - entry.timestamp > TimeframeDuration(tf)
IsExpired(entry, tf, t) == t - entry.timestamp >= TimeframeDuration(tf)

\* MainWindow._get_stale_timeframes() at time t, all_interval being `tracked`
\* and self.cached_results being `cache`.
GetStaleTimeframesOf(tracked, cache, t) ==
    {tf \in tracked : tf \notin DOMAIN cache}
       \cup {tf \in DOMAIN cache : IsExpired(cache[tf], tf, t)}
       \cup CurrentSyncTimeframes(t)

\* MainWindow._get_stale_timeframes(), for the labels of the run.
GetStaleTimeframes(cache, t) ==
    GetStaleTimeframesOf(all_interval, cache, t) \cap Timeframes

\* The calls of _get_stale_timeframes that are followed: stores over three
\* of the labels, an entry being 0 minutes to 2 hours old, at five minutes of
\* an even hour (none, one and all of the labels at a synchronization point)
\* and at the first minute of the odd hour after it.
StaleLabels == {"15m", "1h", "2h"}
SampleAges == {0, 10, 15, 60, 61, 120}
SampleNows == {6000, 6001, 6010, 6016, 6031, 6061}

InitStale ==
    /\ DetectStart
    /\ EnrichStart
    /\ map_file = <<>>
    /\ GuiStart
    /\ ScanStart
    /\ st_pc = "call"
    /\ st_tracked \in (SUBSET StaleLabels) \ {{}}
    /\ st_now \in SampleNows
    /\ st_cache \in UNION {[keys -> {[timestamp |-> st_now - age, data |-> <<>>] :
                                        age \in SampleAges}] :
                              keys \in SUBSET StaleLabels}
    /\ st_stale = {}
    /\ st_sync = {}

get_stale_timeframes ==
    /\ st_pc = "call"
    /\ st_stale' = GetStaleTimeframesOf(st_tracked, st_cache, st_now)
    /\ st_sync' = CurrentSyncTimeframes(st_now)
    /\ st_pc' = "done"
    /\ UNCHANGED <<st_tracked, st_cache, st_now,
                   detectVars, enrichVars, enrichObs, guiVars, scanVars>>

NextStale == get_stale_timeframes

SpecStale == InitStale /\ [][NextStale]_vars

\* Worker.run passes top_n_volume=50, min_streak_count=3.
min_streak_count == 3

\* (symbol, count, timeframe, color, last_price)
ReportRow(symbol, tf, res) ==
    [symbol |-> symbol, count |-> res.count, timeframe |-> tf,
     color |-> res.color, last_price |-> res.last_close]

\* scan_for_candle_streaks, lines 174-191: report_data for the symbols (outer
\* loop) and timeframes (inner loop), the provider answering answers[<<s, tf>>].
RECURSIVE ScanTimeframesAbort(_, _, _)
ScanTimeframesAbort(symbol, tf_list, answers) ==
    IF tf_list = <<>> THEN <<>>
    ELSE IF answers[<<symbol, Head(tf_list)>>].raised THEN <<>>
    ELSE LET tf == Head(tf_list)
             res == CountConsecutiveCandles(answers[<<symbol, tf>>])
         IN  (IF res.count >= min_streak_count
              THEN <<ReportRow(symbol, tf, res)>> ELSE <<>>)
                 \o ScanTimeframesAbort(symbol, Tail(tf_list), answers)
RECURSIVE ScanTimeframes(_, _, _)
ScanTimeframes(symbol, tf_list, answers) ==
    IF tf_list = <<>> THEN <<>>
    ELSE LET tf == Head(tf_list)
             res == CountConsecutiveCandles(answers[<<symbol, tf>>])
         IN  (IF res.count >= min_streak_count
              THEN <<ReportRow(symbol, tf, res)>> ELSE <<>>)
                 \o ScanTimeframes(symbol, Tail(tf_list), answers)
RECURSIVE ScanSymbols(_, _, _)
ScanSymbols(symbols, tf_list, answers) ==
    IF symbols = <<>> THEN <<>>
    ELSE ScanTimeframes(Head(symbols), tf_list, answers)
             \o ScanSymbols(Tail(symbols), tf_list, answers)

\* Worker.run, lines 114-117: the rows grouped under their timeframe; a
\* timeframe gets a key when a row of it is met.
RECURSIVE GroupByTimeframeLastRowOnly(_)
GroupByTimeframeLastRowOnly(rows) ==
    IF rows = <<>> THEN EmptyMap
    ELSE LET front == GroupByTimeframeLastRowOnly(SubSeq(rows, 1, Len(rows) - 1))
             row == rows[Len(rows)]
         IN  Put(front, row.timeframe, <<row>>)
RECURSIVE GroupByTimeframe(_)
GroupByTimeframe(rows) ==
    IF rows = <<>> THEN EmptyMap
    ELSE LET front == GroupByTimeframe(SubSeq(rows, 1, Len(rows) - 1))
             row == rows[Len(rows)]
             tf == row.timeframe
         IN  Put(front, tf,
                 (IF tf \in DOMAIN front THEN front[tf] ELSE <<>>) \o <<row>>)

\* What the exchange can answer for one (symbol, timeframe): an error, four
\* green completed candles, or a green candle after a red one.
Green == [open |-> 1, close |-> 2]
Red == [open |-> 2, close |-> 1]
SampleAnswers ==
    {[raised |-> TRUE, candles |-> <<>>],
     [raised |-> FALSE, candles |-> <<Green, Green, Green, Green, Red>>],
     [raised |-> FALSE, candles |-> <<Red, Green, Green>>]}

\* ------------------------------------------------------------------------
\* Scan orchestrator: fetch_top_volumes and scan_for_candle_streaks
\* ------------------------------------------------------------------------
\* An entry (s, d) of client.fetch_tickers(): d['quoteVolume'] is a number,
\* or None / not there.
Ticker(symbol, volume) == [symbol |-> symbol, quoteVolume |-> volume]
\* A contract settled in its base currency, as "BTC/USD:BTC".
InverseSymbol(base) == [base |-> base, rest |-> "USD:BTC"]
\* ':USDT' in s
HasUsdtSettle(symbol) == symbol.rest = "USDT:USDT"
\* d.get('quoteVolume') and ':USDT' in s
Qualifies(ticker) ==
    /\ ticker.quoteVolume # NoValue
    /\ ticker.quoteVolume[1] # 0
    /\ HasUsdtSettle(ticker.symbol)

\* sorted(symbols, key=lambda x: x[1], reverse=True): a stable sort, an entry
\* goes behind the entries of the same volume that came before it.
RECURSIVE InsertByVolume(_, _)
InsertByVolume(sorted, x) ==
    IF sorted = <<>> THEN <<x>>
    ELSE IF Head(sorted).quoteVolume[1] >= x.quoteVolume[1]
         THEN <<Head(sorted)>> \o InsertByVolume(Tail(sorted), x)
         ELSE <<x>> \o sorted
RECURSIVE SortedByVolume(_)
SortedByVolume(symbols) ==
    IF symbols = <<>> THEN <<>>
    ELSE InsertByVolume(SortedByVolume(SubSeq(symbols, 1, Len(symbols) - 1)),
                        symbols[Len(symbols)])

\* KuCoinClient.fetch_top_volumes(limit) for the provider answer `answer`.
FetchTopVolumes(answer, limit) ==
    IF answer.raised THEN <<>>                                     \* except Exception
    ELSE LET symbols == SortedByVolume(SelectSeq(answer.tickers, Qualifies))
             top == SubSeq(symbols, 1, IF limit < Len(symbols) THEN limit ELSE Len(symbols))
         IN  [i \in 1..Len(top) |-> top[i].symbol]

\* Worker.run passes top_n_volume=50.
top_n_volume == 50

\* The snapshots fetch_top_volumes is followed on: up to MaxTickers
\* instruments (a dict: no symbol twice), settled in USDT or not, the volume
\* None, zero or positive, two instruments having the same volume or not.
RankSymbols == {Symbol("BTC"), Symbol("XYZ"), Symbol("ETH"), InverseSymbol("BTC")}
RankVolumes == {NoValue, Some(0), Some(1), Some(2)}
RankTickers == {Ticker(s, v) : s \in RankSymbols, v \in RankVolumes}
RankSnapshots ==
    {snap \in SeqsUpTo(RankTickers, MaxTickers) :
        \A i, j \in 1..Len(snap) : snap[i].symbol = snap[j].symbol => i = j}

InitRank ==
    /\ DetectStart
    /\ EnrichStart
    /\ map_file = <<>>
    /\ GuiStart
    /\ StaleStart
    /\ sc_pc = "call"
    /\ sc_tickers = [raised |-> TRUE, tickers |-> <<>>]
    /\ sc_timeframes = <<>>
    /\ sc_answers = <<>>
    /\ sc_ensure_raises = FALSE
    /\ sc_result = NoScan
    /\ sc_emitted = <<>>
    /\ rk_pc = "call"
    /\ rk_tickers \in {[raised |-> TRUE, tickers |-> <<>>]}
                        \cup {[raised |-> FALSE, tickers |-> snap] : snap \in RankSnapshots}
    /\ rk_limit \in 0..MaxTickers
    /\ rk_symbols = <<>>

fetch_top_volumes ==
    /\ rk_pc = "call"
    /\ rk_symbols' = FetchTopVolumes(rk_tickers, rk_limit)
    /\ rk_pc' = "done"
    /\ UNCHANGED <<rk_tickers, rk_limit,
                   sc_pc, sc_tickers, sc_timeframes, sc_answers, sc_ensure_raises,
                   sc_result, sc_emitted,
                   detectVars, enrichVars, enrichObs, guiVars, staleVars>>

NextRank == fetch_top_volumes

SpecRank == InitRank /\ [][NextRank]_vars

\* What client.fetch_tickers can answer: an error, nothing, a contract without
\* a volume, one with volume zero, one not settled in USDT, one or two
\* qualifying contracts.
TickerAnswers ==
    {[raised |-> TRUE, tickers |-> <<>>],
     [raised |-> FALSE, tickers |-> <<>>],
     [raised |-> FALSE, tickers |-> <<Ticker(Symbol("BTC"), NoValue)>>],
     [raised |-> FALSE, tickers |-> <<Ticker(Symbol("BTC"), Some(0))>>],
     [raised |-> FALSE, tickers |-> <<Ticker(InverseSymbol("BTC"), Some(2))>>],
     [raised |-> FALSE, tickers |-> <<Ticker(Symbol("BTC"), Some(2))>>],
     [raised |-> FALSE, tickers |-> <<Ticker(Symbol("XYZ"), Some(1)),
                                      Ticker(Symbol("BTC"), Some(2))>>]}

\* What scan_for_candle_streaks does, in order: a line handed to log_callback,
\* a call of progress_callback, of fetch_top_volumes, of
\* ensure_asset_details_are_loaded, of count_consecutive_candles (with the
\* count it returned).
LogEv(message) == [ev |-> "log", message |-> message]
ProgressEv(current, total) == [ev |-> "progress", current |-> current, total |-> total]
RankEv == [ev |-> "fetch_top_volumes"]
EnsureEv(symbols) == [ev |-> "ensure_asset_details_are_loaded", symbols |-> symbols]
CountEv(symbol, tf, count) ==
    [ev |-> "count_consecutive_candles", symbol |-> symbol, timeframe |-> tf,
     count |-> count]

\* Lines 180-187, what is done for one symbol: current_scan is the counter on
\* entry.
RECURSIVE TraceTimeframes(_, _, _, _, _)
TraceTimeframes(symbol, tf_list, answers, current_scan, total_scans) ==
    IF tf_list = <<>> THEN <<>>
    ELSE LET tf == Head(tf_list)
             res == CountConsecutiveCandles(answers[<<symbol, tf>>])
         IN  <<ProgressEv(current_scan + 1, total_scans), CountEv(symbol, tf, res.count)>>
                 \o TraceTimeframes(symbol, Tail(tf_list), answers,
                                    current_scan + 1, total_scans)
\* Lines 177-187, what is done for the symbols.
RECURSIVE TraceSymbols(_, _, _, _, _)
TraceSymbols(symbols, tf_list, answers, current_scan, total_scans) ==
    IF symbols = <<>> THEN <<>>
    ELSE <<LogEv("Analyzing")>>
             \o TraceTimeframes(Head(symbols), tf_list, answers, current_scan, total_scans)
             \o TraceSymbols(Tail(symbols), tf_list, answers,
                             current_scan + Len(tf_list), total_scans)

\* scan_for_candle_streaks from line 169 on, fetch_top_volumes having
\* returned `symbols`.
ScanUniverseNoAbort(symbols, timeframes, answers, ensure_raises) ==
    LET total_scans == Len(symbols) * Len(timeframes)
        begun == <<LogEv("Fetching top volume symbols from KuCoin..."), RankEv>>
    IN  IF ensure_raises
        THEN [raised |-> TRUE, report_data |-> <<>>,
              trace |-> begun \o <<EnsureEv(symbols)>>]
        ELSE [raised |-> FALSE,
              report_data |-> ScanSymbols(symbols, timeframes, answers),
              trace |-> begun
                  \o <<EnsureEv(symbols), LogEv("Scanning symbols for candle streaks...")>>
                  \o TraceSymbols(symbols, timeframes, answers, 0, total_scans)
                  \o <<ProgressEv(total_scans, total_scans), LogEv("Scan complete.")>>]
ScanUniverse(symbols, timeframes, answers, ensure_raises) ==
    LET total_scans == Len(symbols) * Len(timeframes)
        begun == <<LogEv("Fetching top volume symbols from KuCoin..."), RankEv>>
    IN  IF symbols = <<>>
        THEN [raised |-> FALSE, report_data |-> <<>>,
              trace |-> begun
                  \o <<LogEv("Could not fetch top volume symbols. Aborting scan.")>>]
        ELSE IF ensure_raises
        THEN [raised |-> TRUE, report_data |-> <<>>,
              trace |-> begun \o <<EnsureEv(symbols)>>]
        ELSE [raised |-> FALSE,
              report_data |-> ScanSymbols(symbols, timeframes, answers),
              trace |-> begun
                  \o <<EnsureEv(symbols), LogEv("Scanning symbols for candle streaks...")>>
                  \o TraceSymbols(symbols, timeframes, answers, 0, total_scans)
                  \o <<ProgressEv(total_scans, total_scans), LogEv("Scan complete.")>>]

\* KuCoinClient.scan_for_candle_streaks(timeframes, top_n_volume, ...)
ScanForCandleStreaks(tickers, timeframes, top_n, answers, ensure_raises) ==
    ScanUniverse(FetchTopVolumes(tickers, top_n), timeframes, answers, ensure_raises)

\* The (symbol, timeframe) units of a scan.
ScanPairs(symbols, timeframes) ==
    {<<symbols[i], timeframes[j]>> : i \in 1..Len(symbols), j \in 1..Len(timeframes)}

\* What the exchange answers in the runs of one scan: SampleAnswers, and
\* streaks at and right under min_streak_count, green and red.
ScanAnswers ==
    SampleAnswers
      \cup {[raised |-> FALSE, candles |-> <<Red, Green, Green, Green, Red>>],
            [raised |-> FALSE, candles |-> <<Green, Red, Red, Green>>],
            [raised |-> FALSE, candles |-> <<Red, Red, Red, Green>>]}

InitScan ==
    /\ DetectStart
    /\ EnrichStart
    /\ map_file = <<>>
    /\ GuiStart
    /\ StaleStart
    /\ sc_pc = "call"
    /\ sc_tickers \in TickerAnswers
    /\ sc_timeframes \in {TimeframeList(tfs, 1) : tfs \in (SUBSET Timeframes) \ {{}}}
    /\ sc_answers \in [ScanPairs(FetchTopVolumes(sc_tickers, top_n_volume), sc_timeframes)
                          -> ScanAnswers]
    /\ sc_ensure_raises \in BOOLEAN
    /\ sc_result = NoScan
    /\ sc_emitted = <<>>
    /\ rk_pc = "call"
    /\ rk_tickers = [raised |-> TRUE, tickers |-> <<>>]
    /\ rk_limit = 0
    /\ rk_symbols = <<>>

scan_for_candle_streaks ==
    /\ sc_pc = "call"
    /\ sc_result' = ScanForCandleStreaks(sc_tickers, sc_timeframes, top_n_volume,
                                         sc_answers, sc_ensure_raises)
    /\ sc_pc' = "done"
    /\ UNCHANGED <<sc_tickers, sc_timeframes, sc_answers, sc_ensure_raises,
                   sc_emitted,
                   rk_pc, rk_tickers, rk_limit, rk_symbols,
                   detectVars, enrichVars, enrichObs, guiVars, staleVars>>

\* Worker.run, lines 113-118, scan_for_candle_streaks having returned: the rows
\* are grouped and handed to the finished signal.
worker_emits_finished ==
    /\ sc_pc = "done"
    /\ ~sc_result.raised
    /\ sc_emitted = <<>>
    /\ sc_emitted' = <<GroupByTimeframe(sc_result.report_data)>>
    /\ UNCHANGED <<sc_pc, sc_tickers, sc_timeframes, sc_answers, sc_ensure_raises,
                   sc_result,
                   rk_pc, rk_tickers, rk_limit, rk_symbols,
                   detectVars, enrichVars, enrichObs, guiVars, staleVars>>

NextScan == scan_for_candle_streaks \/ worker_emits_finished

SpecScan == InitScan /\ [][NextScan]_vars

\* What fetch_top_volumes returns in the runs of the main window: nothing, or
\* the one symbol of the run.
Universes ==
    {FetchTopVolumes(a, top_n_volume) : a \in {x \in TickerAnswers : Len(x.tickers) <= 1}}

Event(slot, t, data) == [slot |-> slot, thread |-> t, data |-> data]

\* self.worker_thread and self.worker_thread.isRunning()
IsRunning(t) == t # NoThread /\ threads[t].state = "running"
RefreshInProgress == IsRunning(worker_thread)

\* The caches load_cache() can find: none, one written this minute, one
\* whose entries have just expired.
OldRow(tf) ==
    [symbol |-> Symbol("BTC"), count |-> 3, timeframe |-> tf,
     color |-> "red", last_price |-> Some(1)]
InitialCaches ==
    {EmptyMap,
     [tf \in all_interval |-> [timestamp |-> 0, data |-> <<OldRow(tf)>>]],
     [tf \in all_interval |->
         [timestamp |-> 0 - TimeframeDuration(tf), data |-> <<OldRow(tf)>>]]}

Init ==
    /\ DetectStart
    /\ EnrichStart
    /\ map_file = <<>>
    /\ g_pc = "init"
    /\ now = 0
    /\ cached_results \in InitialCaches
    /\ worker_thread = NoThread
    /\ threads = [t \in ThreadIds |-> NoSuchThread]
    /\ n_threads = 0
    /\ main_queue = <<>>
    /\ refresh_enabled = TRUE
    /\ aborted = FALSE
    /\ last_scan = [tf \in Timeframes |-> <<>>]
    /\ progress_bar = NoProgress
    /\ log_dialog = <<>>
    /\ ScanStart
    /\ StaleStart

\* MainWindow.manual_refresh() at time t.
ManualRefresh(t) ==
    IF RefreshInProgress
    THEN UNCHANGED <<worker_thread, threads, n_threads, refresh_enabled,
                     progress_bar, log_dialog>>
    ELSE LET timeframes == GetStaleTimeframes(cached_results, t)
         IN  IF timeframes = {}
             THEN UNCHANGED <<worker_thread, threads, n_threads, refresh_enabled,
                              progress_bar, log_dialog>>
             ELSE /\ n_threads < MaxThreads
                  /\ n_threads' = n_threads + 1
                  /\ log_dialog' = <<>>
                  /\ progress_bar' = 0
                  /\ refresh_enabled' = FALSE
                  /\ worker_thread' = n_threads + 1
                  /\ threads' = [threads EXCEPT ![n_threads + 1] =
                                    [state |-> "running", w_pc |-> "started",
                                     announced |-> FALSE,
                                     timeframes |-> timeframes, quit |-> FALSE,
                                     universe |-> <<>>, calls |-> <<>>]]

\* MainWindow.__init__, lines 203-208: the initial refresh, then the timer.
startup ==
    /\ g_pc = "init"
    /\ ~aborted
    /\ g_pc' = "exec"
    /\ ManualRefresh(now)
    /\ UNCHANGED <<now, cached_results, main_queue, aborted, last_scan,
                   detectVars, enrichVars, enrichObs,
                   scanVars, staleVars>>

\* The 60-second timer fires: check_sync_point.
check_sync_point ==
    /\ g_pc = "exec"
    /\ ~aborted
    /\ now < MaxNow
    /\ now' = now + 1
    /\ ManualRefresh(now')
    /\ UNCHANGED <<g_pc, cached_results, main_queue, aborted, last_scan,
                   detectVars, enrichVars, enrichObs,
                   scanVars, staleVars>>

\* The user clicks "Refresh Now" (an enabled button only emits clicked).
refresh_clicked ==
    /\ g_pc = "exec"
    /\ ~aborted
    /\ refresh_enabled
    /\ ManualRefresh(now)
    /\ UNCHANGED <<g_pc, now, cached_results, main_queue, aborted, last_scan,
                   detectVars, enrichVars, enrichObs,
                   scanVars, staleVars>>

\* The lines of a trace that went to log_callback, and the value the
\* progress bar is left with by the calls of progress_callback (line 271:
\* int(c/t * 100) if t > 0 else 0), if there was one.
IsLogEv(e) == e.ev = "log"
IsProgressEvent(e) == e.ev = "progress"
RECURSIVE Messages(_)
Messages(events) ==
    IF events = <<>> THEN <<>> ELSE <<Head(events).message>> \o Messages(Tail(events))
LogLines(trace) == Messages(SelectSeq(trace, IsLogEv))
Percent(e) == IF e.total > 0 THEN (e.current * 100) \div e.total ELSE 0
LastProgress(trace) ==
    LET reports == SelectSeq(trace, IsProgressEvent)
    IN  IF reports = <<>> THEN NoValue ELSE Some(Percent(reports[Len(reports)]))
Reports(lines, progress) == [log |-> lines, progress |-> progress]
\* The calls a scan made, in order, without their arguments.
RECURSIVE Calls(_)
Calls(trace) ==
    IF trace = <<>> THEN <<>> ELSE <<Head(trace).ev>> \o Calls(Tail(trace))

\* Worker.run in thread t has begun: scan_for_candle_streaks hands its first
\* line to log_callback (line 167), which posts append_log to the main thread
\* (line 270).
worker_run_begins(t) ==
    /\ ~aborted
    /\ threads[t].state = "running"
    /\ threads[t].w_pc = "started"
    /\ ~threads[t].announced
    /\ threads' = [threads EXCEPT ![t].announced = TRUE]
    /\ main_queue' = Append(main_queue,
           Event("report", t,
                 Reports(<<"Fetching top volume symbols from KuCoin...">>, NoValue)))
    /\ UNCHANGED <<g_pc, now, cached_results, worker_thread, n_threads,
                   refresh_enabled, aborted, last_scan, progress_bar, log_dialog,
                   detectVars, enrichVars, enrichObs, scanVars, staleVars>>

\* Worker.run in thread t returns: the scan has posted its other lines and
\* its progress (lines 270-271), its rows are grouped and finished is
\* emitted, which posts on_scan_complete and QThread.quit to the main thread
\* (lines 272-273, in connection order).
worker_run_returns(t) ==
    /\ ~aborted
    /\ threads[t].state = "running"
    /\ threads[t].w_pc = "started"
    /\ threads[t].announced
    /\ \E symbols \in Universes :
         LET tf_list == TimeframeList(threads[t].timeframes, 1)
             pairs == ScanPairs(symbols, tf_list)
         IN  \E answers \in [pairs -> SampleAnswers] :
               LET scan == ScanUniverse(symbols, tf_list, answers, FALSE)
                   results_list == scan.report_data
                   newly_scanned_results == GroupByTimeframe(results_list)
               IN  /\ threads' = [threads EXCEPT ![t].w_pc = "returned",
                                                 ![t].universe = symbols,
                                                 ![t].calls = Calls(scan.trace)]
                   /\ main_queue' = main_queue
                          \o <<Event("report", t,
                                     Reports(Tail(LogLines(scan.trace)),
                                             LastProgress(scan.trace))),
                               Event("on_scan_complete", t, newly_scanned_results),
                               Event("quit", t, EmptyMap)>>
    /\ UNCHANGED <<g_pc, now, cached_results, worker_thread, n_threads,
                   refresh_enabled, aborted, last_scan, progress_bar, log_dialog,
                   detectVars, enrichVars, enrichObs,
                   scanVars, staleVars>>

\* An exception escapes scan_for_candle_streaks inside Worker.run: the slot
\* ends without emitting finished and the thread stays in its event loop.
worker_run_raises(t) ==
    /\ ~aborted
    /\ threads[t].state = "running"
    /\ threads[t].w_pc = "started"
    /\ threads[t].announced
    /\ threads' = [threads EXCEPT ![t].w_pc = "raised"]
    /\ UNCHANGED <<g_pc, now, cached_results, worker_thread, n_threads,
                   main_queue, refresh_enabled, aborted, last_scan,
                   progress_bar, log_dialog,
                   detectVars, enrichVars, enrichObs,
                   scanVars, staleVars>>

\* Thread t leaves its event loop after quit: isRunning() becomes false and
\* its finished signal posts deleteLater and cleanup_thread_references to the
\* main thread (lines 275-276).
thread_exit(t) ==
    /\ ~aborted
    /\ threads[t].state = "running"
    /\ threads[t].w_pc # "started"
    /\ threads[t].quit
    /\ threads' = [threads EXCEPT ![t].state = "finished"]
    /\ main_queue' = main_queue
           \o <<Event("deleteLater", t, EmptyMap),
                Event("cleanup_thread_references", t, EmptyMap)>>
    /\ UNCHANGED <<g_pc, now, cached_results, worker_thread, n_threads,
                   refresh_enabled, aborted, last_scan,
                   progress_bar, log_dialog,
                   detectVars, enrichVars, enrichObs,
                   scanVars, staleVars>>

\* The slot call at the head of the main thread's queue.
Posted(slot) ==
    /\ g_pc = "exec"
    /\ ~aborted
    /\ main_queue # <<>>
    /\ Head(main_queue).slot = slot

\* The entries on_scan_complete writes: one per key of new_data_dict.
CommitKeysEveryTimeframe(new_data_dict, scanned) == Timeframes
CommitKeys(new_data_dict, scanned) == DOMAIN new_data_dict

\* LogDialog.append_log and the lambda of line 271, for the lines and the
\* progress a worker has posted.
worker_reports ==
    /\ Posted("report")
    /\ LET ev == Head(main_queue)
       IN  /\ log_dialog' = log_dialog \o ev.data.log
           /\ progress_bar' = IF ev.data.progress = NoValue THEN progress_bar
                               ELSE ev.data.progress[1]
    /\ main_queue' = Tail(main_queue)
    /\ UNCHANGED <<g_pc, now, cached_results, worker_thread, threads, n_threads,
                   refresh_enabled, aborted, last_scan,
                   detectVars, enrichVars, enrichObs, scanVars, staleVars>>

\* MainWindow.on_scan_complete(new_data_dict)
on_scan_complete ==
    /\ Posted("on_scan_complete")
    /\ LET ev == Head(main_queue)
           new_data_dict == ev.data
           scanned == threads[ev.thread].timeframes
           keys == CommitKeys(new_data_dict, scanned)
           DataOf(tf) == IF tf \in DOMAIN new_data_dict THEN new_data_dict[tf] ELSE <<>>
       IN  /\ cached_results' =
                 [tf \in (DOMAIN cached_results) \cup keys |->
                     IF tf \in keys
                     THEN [timestamp |-> now, data |-> DataOf(tf)]
                     ELSE cached_results[tf]]
           /\ last_scan' =
                 [tf \in Timeframes |->
                     IF tf \in scanned /\ threads[ev.thread].universe # <<>>
                     THEN <<[timestamp |-> now, data |-> DataOf(tf)]>>
                     ELSE last_scan[tf]]
    /\ refresh_enabled' = TRUE
    /\ main_queue' = Tail(main_queue)
    /\ UNCHANGED <<g_pc, now, worker_thread, threads, n_threads, aborted,
                   progress_bar, log_dialog,
                   detectVars, enrichVars, enrichObs,
                   scanVars, staleVars>>

\* QThread.quit of the sender's thread: its event loop is told to exit.
thread_quit ==
    /\ Posted("quit")
    /\ threads' = [threads EXCEPT ![Head(main_queue).thread].quit = TRUE]
    /\ main_queue' = Tail(main_queue)
    /\ UNCHANGED <<g_pc, now, cached_results, worker_thread, n_threads,
                   refresh_enabled, aborted, last_scan,
                   progress_bar, log_dialog,
                   detectVars, enrichVars, enrichObs,
                   scanVars, staleVars>>

\* QThread.deleteLater of a finished thread: Qt deletes the object when
\* control is back in the event loop, behind the calls already posted; no
\* slot uses the object after that.
thread_deleteLater ==
    /\ Posted("deleteLater")
    /\ main_queue' = Tail(main_queue)
    /\ UNCHANGED <<g_pc, now, cached_results, worker_thread, threads, n_threads,
                   refresh_enabled, aborted, last_scan,
                   progress_bar, log_dialog,
                   detectVars, enrichVars, enrichObs,
                   scanVars, staleVars>>

\* MainWindow.cleanup_thread_references: self.worker, self.worker_thread =
\* None, None. The references dropped are the ones held now, whichever thread
\* posted the call. Dropping the only reference to a QThread that is running
\* has two outcomes: the object lives on (this action), or it is destroyed
\* and Qt aborts the process with "QThread: Destroyed while thread is still
\* running" (cleanup_destroys_running_thread).
cleanup_thread_references ==
    /\ Posted("cleanup_thread_references")
    /\ worker_thread' = NoThread
    /\ main_queue' = Tail(main_queue)
    /\ UNCHANGED <<g_pc, now, cached_results, threads, n_threads,
                   refresh_enabled, aborted, last_scan,
                   progress_bar, log_dialog,
                   detectVars, enrichVars, enrichObs,
                   scanVars, staleVars>>

cleanup_destroys_running_thread ==
    /\ Posted("cleanup_thread_references")
    /\ IsRunning(worker_thread)
    /\ aborted' = TRUE
    /\ worker_thread' = NoThread
    /\ main_queue' = Tail(main_queue)
    /\ UNCHANGED <<g_pc, now, cached_results, threads, n_threads,
                   refresh_enabled, last_scan,
                   progress_bar, log_dialog,
                   detectVars, enrichVars, enrichObs,
                   scanVars, staleVars>>

Next ==
    \/ startup
    \/ check_sync_point
    \/ refresh_clicked
    \/ \E t \in ThreadIds : worker_run_begins(t)
    \/ \E t \in ThreadIds : worker_run_returns(t)
    \/ \E t \in ThreadIds : worker_run_raises(t)
    \/ \E t \in ThreadIds : thread_exit(t)
    \/ worker_reports
    \/ on_scan_complete
    \/ thread_quit
    \/ thread_deleteLater
    \/ cleanup_thread_references
    \/ cleanup_destroys_running_thread

Spec == Init /\ [][Next]_vars

\* Threads are scheduled and the main thread's event loop runs the slot
\* calls posted to it.
Fairness ==
    /\ WF_vars(startup)
    /\ \A t \in ThreadIds : WF_vars(worker_run_begins(t))
    /\ \A t \in ThreadIds : WF_vars(worker_run_returns(t) \/ worker_run_raises(t))
    /\ \A t \in ThreadIds : WF_vars(thread_exit(t))
    /\ WF_vars(worker_reports)
    /\ WF_vars(on_scan_complete)
    /\ WF_vars(thread_quit)
    /\ WF_vars(thread_deleteLater)
    /\ WF_vars(cleanup_thread_references \/ cleanup_destroys_running_thread)

FairSpec == Spec /\ Fairness

\* The main window when the last of the MaxThreads scans is never started:
\* the same steps, over fewer scans.
NextFewerScans ==
    \/ startup /\ n_threads' < MaxThreads
    \/ check_sync_point /\ n_threads' < MaxThreads
    \/ refresh_clicked /\ n_threads' < MaxThreads
    \/ \E t \in ThreadIds : worker_run_begins(t)
    \/ \E t \in ThreadIds : worker_run_returns(t)
    \/ \E t \in ThreadIds : worker_run_raises(t)
    \/ \E t \in ThreadIds : thread_exit(t)
    \/ worker_reports
    \/ on_scan_complete
    \/ thread_quit
    \/ thread_deleteLater
    \/ cleanup_thread_references
    \/ cleanup_destroys_running_thread

FairSpecFewerScans == Init /\ [][NextFewerScans]_vars /\ Fairness

\* ========================================================================
\* Properties of the main window (Spec, FairSpec)
\* ========================================================================
\* Thread t was started for a scan and its Worker.run has not ended yet.
ScanInFlight(t) == threads[t].state = "running" /\ threads[t].w_pc = "started"
\* Thread t has been started and has not finished (QThread.isRunning()).
ThreadAlive(t) == ~aborted /\ threads[t].state = "running"

\* C1: at most one scan worker executes at any time, under every interleaving
\* of timer ticks, button clicks, finished, on_scan_complete, quit and
\* cleanup_thread_references.
C1_SingleFlight ==
    Cardinality({t \in ThreadIds : ScanInFlight(t)}) <= 1

\* C2: once a scan with a non-empty symbol universe has completed, every
\* timeframe it scanned has the cache entry of that scan: its completion time
\* and exactly its qualifying rows, an empty list included.
C2_CacheShowsLastScan ==
    \A tf \in Timeframes :
        last_scan[tf] # <<>> =>
            /\ tf \in DOMAIN cached_results
            /\ cached_results[tf] = last_scan[tf][1]

\* C3: every started scan eventually leaves its thread not running, so that
\* the guard of manual_refresh is released, also when an exception escapes
\* Worker.run.
C3_EveryScanEnds ==
    \A t \in ThreadIds : ThreadAlive(t) ~> ~ThreadAlive(t)

\* ========================================================================
\* Properties of the asset metadata cache (SpecEnrich)
\* ========================================================================
\* The codes of missing_currencies the current call has finished with.
Processed == {missing[k] : k \in 1..e_i}

\* C4: a second call in succession with the same symbol set (the first one
\* having processed its codes, nothing changed in between) makes zero network
\* calls: no catalog fetch, no coin-detail fetch, no icon download.
C4_SecondCallNoNetwork ==
    in_succession => NetTotal(net) = 0

\* C5: once a fallback entry was stored for a code, no later call treats the
\* code as missing (and so none makes another fetch attempt for it).
C5_FallbackIsFinal ==
    \A c \in fallback_final :
        e_pc # "idle" => \A k \in 1..Len(missing) : missing[k] # c

\* C6: one call makes at most 3 coin-detail requests per code, a 429 response
\* using up an attempt like any failure; after three 429 responses the code
\* has the fallback entry, the call has gone on to the next code and no
\* exception has escaped at it.
C6_RetryBudget ==
    \A c \in Codes :
        /\ net.detail[c] <= max_retries
        /\ n429[c] = max_retries =>
               /\ c \in DOMAIN asset_details
               /\ asset_details[c] = Fallback(c)
               /\ c \in Processed
               /\ e_raised # c

\* C6 witness: BTC was rate-limited three times, XYZ was processed after it
\* and the call returned normally with the store saved.
C6_Witness ==
    /\ n429["BTC"] = 3
    /\ net.detail["BTC"] = 3
    /\ missing = <<"BTC", "XYZ">>
    /\ e_i = 2
    /\ e_pc = "idle"
    /\ e_raised = None
    /\ details_file = <<asset_details>>
    /\ asset_details["BTC"] = Fallback("BTC")

\* ========================================================================
\* Properties of the candle streak detector (SpecDetect)
\* ========================================================================
\* The window count_consecutive_candles was given, when the provider answered.
DetectDone == det_pc = "done" /\ ~ohlcv.raised
FetchedWindow == ohlcv.candles
\* The completed candles of a window: all but its last element.
CompletedOf(window) == [i \in 1..(Len(window) - 1) |-> window[i]]
IsGreen(candle) == candle.close >= candle.open
ColourOf(candle) == IF IsGreen(candle) THEN "green" ELSE "red"
\* Length of the maximal run of same-colour candles ending at the last one.
MaxRun(c) ==
    CHOOSE k \in 1..Len(c) :
        /\ \A j \in (Len(c) - k + 1)..Len(c) : IsGreen(c[j]) = IsGreen(c[Len(c)])
        /\ k = Len(c) \/ IsGreen(c[Len(c) - k]) # IsGreen(c[Len(c)])

\* C7: for every fetched window with at least one completed candle the result
\* is count = length of the maximal same-colour run ending at the most recent
\* completed candle, color = that candle's colour (green iff close >= open),
\* lastClose = that candle's close.
C7_StreakIsMaximalRun ==
    (DetectDone /\ Len(FetchedWindow) >= 2) =>
        LET c == CompletedOf(FetchedWindow)
        IN  /\ streak.count = MaxRun(c)
            /\ streak.color = ColourOf(c[Len(c)])
            /\ streak.last_close = Some(c[Len(c)].close)

\* C7 witness: completed colours green,green,green,red,red,red were scanned
\* and gave count 3, colour red.
C7_Witness ==
    /\ DetectDone
    /\ Len(FetchedWindow) = 7
    /\ \A i \in 1..3 : IsGreen(FetchedWindow[i])
    /\ \A i \in 4..6 : ~IsGreen(FetchedWindow[i])
    /\ streak.count = 3
    /\ streak.color = "red"

\* C8: the forming candle never influences the result: every window that
\* differs from the fetched one only in its last candle gives the same
\* (count, color, lastClose).
C8_FormingCandleIgnored ==
    (DetectDone /\ Len(FetchedWindow) >= 1) =>
        \A c \in Candle :
            CountConsecutiveCandles(
                [raised |-> FALSE,
                 candles |-> [FetchedWindow EXCEPT ![Len(FetchedWindow)] = c]]) = streak

\* C8 witness: a streak was found while the forming candle has the other
\* colour and another close than the most recent completed candle.
C8_Witness ==
    /\ DetectDone
    /\ Len(FetchedWindow) >= 3
    /\ streak.count >= 2
    /\ ColourOf(FetchedWindow[Len(FetchedWindow)]) # streak.color
    /\ Some(FetchedWindow[Len(FetchedWindow)].close) # streak.last_close

\* C9 as stated: 0 or 1 completed candles after the trim give count=0, color
\* absent, lastClose absent.
C9_Original ==
    (DetectDone /\ Len(FetchedWindow) <= 2) => streak = NoStreak

\* C9 amended: no completed candle after the trim gives count=0, color absent,
\* lastClose absent; exactly one completed candle gives count=1 with that
\* candle's colour and close.
C9_FewCompletedCandles ==
    /\ (DetectDone /\ Len(FetchedWindow) <= 1) => streak = NoStreak
    /\ (DetectDone /\ Len(FetchedWindow) = 2) =>
            /\ streak.count = 1
            /\ streak.color = ColourOf(FetchedWindow[1])
            /\ streak.last_close = Some(FetchedWindow[1].close)

\* C9 witness: a window of one completed candle and the forming candle was
\* scanned.
C9_Witness ==
    /\ DetectDone
    /\ Len(FetchedWindow) = 2
    /\ streak.count = 1

\* C10: a fetched window of length 0, or of length 1 (only the forming
\* candle), gives count=0 and color absent.
C10_EmptyOrFormingOnly ==
    (DetectDone /\ Len(FetchedWindow) \in {0, 1}) =>
        (streak.count = 0 /\ streak.color = None)

\* C10 witness: a window holding only the forming candle was scanned.
C10_Witness ==
    /\ DetectDone
    /\ Len(FetchedWindow) = 1
    /\ streak.count = 0

\* C11: in every result count=0 exactly when color is absent and exactly when
\* lastClose is absent, and this happens only when there is no completed
\* candle or the provider call raised; with at least one completed candle the
\* count is >= 1, and a single completed candle gives count=1.
C11_ZeroMeansNoData ==
    det_pc = "done" =>
        /\ (streak.count = 0) <=> (streak.color = None)
        /\ (streak.count = 0) <=> (streak.last_close = NoValue)
        /\ streak.count = 0 => (ohlcv.raised \/ Len(ohlcv.candles) <= 1)
        /\ (~ohlcv.raised /\ Len(ohlcv.candles) >= 2) => streak.count >= 1
        /\ (~ohlcv.raised /\ Len(ohlcv.candles) = 2) => streak.count = 1

\* C11 witness: the provider call raised and the result is (0, absent, absent).
C11_Witness ==
    /\ det_pc = "done"
    /\ ohlcv.raised
    /\ streak.count = 0
    /\ streak.color = None
    /\ streak.last_close = NoValue

\* ========================================================================
\* Properties of the scan (SpecScan)
\* ========================================================================
\* The symbol universe of the scan and its (symbol, timeframe) units, in the
\* order of the loops: symbols outside, timeframes inside.
ScannedSymbols == FetchTopVolumes(sc_tickers, top_n_volume)
TotalUnits == Len(ScannedSymbols) * Len(sc_timeframes)
Unit(k) ==
    <<ScannedSymbols[((k - 1) \div Len(sc_timeframes)) + 1],
      sc_timeframes[((k - 1) % Len(sc_timeframes)) + 1]>>
\* The scan ran its loops: there were symbols and the metadata call returned.
ScanLooped == sc_pc = "done" /\ ScannedSymbols # <<>> /\ ~sc_ensure_raises
IsCountEv(e) == e.ev = "count_consecutive_candles"
IsProgressEv(e) == e.ev = "progress"
\* The units whose candles were fetched and hold a streak long enough.
UnitQualifies(k) ==
    /\ ~sc_answers[Unit(k)].raised
    /\ CountConsecutiveCandles(sc_answers[Unit(k)]).count >= min_streak_count
RECURSIVE RowsOfUnits(_)
RowsOfUnits(k) ==
    IF k > TotalUnits THEN <<>>
    ELSE (IF UnitQualifies(k)
          THEN <<[symbol |-> Unit(k)[1],
                  count |-> CountConsecutiveCandles(sc_answers[Unit(k)]).count,
                  timeframe |-> Unit(k)[2],
                  color |-> CountConsecutiveCandles(sc_answers[Unit(k)]).color,
                  last_price |-> CountConsecutiveCandles(sc_answers[Unit(k)]).last_close]>>
          ELSE <<>>) \o RowsOfUnits(k + 1)

\* C12: a failure while fetching the candles of one (symbol, timeframe) pair
\* is absorbed as count=0 for that pair and does not abort the scan: every
\* pair is processed, the final progress (total, total) is reported and the
\* results of the pairs that succeeded are returned.
C12_FailedPairAbsorbed ==
    ScanLooped =>
        LET trace == sc_result.trace
            counts == SelectSeq(trace, IsCountEv)
            last_progress == trace[Len(trace) - 1]
        IN  /\ ~sc_result.raised
            /\ Len(counts) = TotalUnits
            /\ \A k \in 1..TotalUnits :
                  /\ counts[k].symbol = Unit(k)[1]
                  /\ counts[k].timeframe = Unit(k)[2]
                  /\ sc_answers[Unit(k)].raised => counts[k].count = 0
            /\ IsProgressEv(last_progress)
            /\ last_progress.current = TotalUnits
            /\ last_progress.total = TotalUnits
            /\ sc_result.report_data = RowsOfUnits(1)

\* C12 witness: the candles of the first pair could not be fetched, and a
\* later pair of the same symbol and one of the next symbol are in the result.
C12_Witness ==
    /\ ScanLooped
    /\ Len(ScannedSymbols) = 2
    /\ Len(sc_timeframes) >= 2
    /\ sc_answers[Unit(1)].raised
    /\ \E i \in 1..Len(sc_result.report_data) :
          /\ sc_result.report_data[i].symbol = ScannedSymbols[1]
          /\ sc_result.report_data[i].timeframe = sc_timeframes[2]
    /\ \E i \in 1..Len(sc_result.report_data) :
          sc_result.report_data[i].symbol = ScannedSymbols[2]

\* ========================================================================
\* Properties of the staleness tracker (SpecStale)
\* ========================================================================
\* now is a synchronization point of timeframe tf: one minute past a quarter
\* of an hour (15m), past a half hour (30m), past the hour (the others).
SyncBoundary(tf, t) ==
    CASE tf = "15m" -> t % 15 = 1
      [] tf = "30m" -> t % 30 = 1
      [] OTHER -> t % 60 = 1
\* Minutes since the entry of tf was refreshed.
AgeOf(tf) == st_now - st_cache[tf].timestamp

\* C13: a tracked timeframe is reported as due if and only if it has no cache
\* entry, or now minus the entry's timestamp is at least the timeframe's
\* duration, or now is a synchronization boundary of it. A 1h entry refreshed
\* 61 minutes ago is due; one refreshed 10 minutes ago is not due when now is
\* no synchronization boundary.
C13_DueTimeframes ==
    st_pc = "done" =>
        /\ \A tf \in st_tracked :
              tf \in st_stale <=>
                  \/ tf \notin DOMAIN st_cache
                  \/ AgeOf(tf) >= TimeframeDuration(tf)
                  \/ SyncBoundary(tf, st_now)
        /\ ("1h" \in st_tracked /\ "1h" \in DOMAIN st_cache) =>
              /\ AgeOf("1h") = 61 => "1h" \in st_stale
              /\ (AgeOf("1h") = 10 /\ ~SyncBoundary("1h", st_now)) => "1h" \notin st_stale

\* C13 witness: away from every synchronization boundary, a 1h entry
\* refreshed 61 minutes ago was reported and a 2h entry refreshed 61 minutes
\* ago was not.
C13_Witness ==
    /\ st_pc = "done"
    /\ st_tracked = {"15m", "1h", "2h"}
    /\ \A tf \in st_tracked : ~SyncBoundary(tf, st_now)
    /\ DOMAIN st_cache = {"1h", "2h"}
    /\ AgeOf("1h") = 61
    /\ AgeOf("2h") = 61
    /\ st_stale = {"15m", "1h"}

\* ========================================================================
\* Properties of the asset metadata cache, continued (SpecEnrich)
\* ========================================================================
FullCatalog == MapOfListing(CatalogListing, Len(CatalogListing))
LastLogged == IF e_log = <<>> THEN None ELSE e_log[Len(e_log)]
\* The last call returned from the catalog step: obtaining the catalog failed.
CatalogFailed == e_pc = "idle" /\ prev_symbols # <<>> /\ ~prev_processed

\* C15: if the catalog has to be fetched and the fetch fails (the request, or
\* reading the listing), the call logs and returns with asset_details
\* unchanged, the asset-details snapshot not written and no canonical-map
\* snapshot persisted, and no per-asset detail request is made in that call.
C15_CatalogFetchFailure ==
    [][(e_pc = "catalog" /\ e_pc' = "idle" /\ coingecko_map' # FullCatalog) =>
          /\ asset_details' = asset_details
          /\ details_file' = details_file
          /\ n_saved' = 0
          /\ map_file' = map_file
          /\ map_file' = <<>>
          /\ \A c \in Codes : net'.detail[c] = 0
          /\ net'.icon = 0
          /\ e_log'[Len(e_log')] = "Fatal Error: Could not fetch CoinGecko ID map"
          /\ e_raised' = None]_vars

\* C15 witness: the call for BTC and XYZ returned after its catalog request
\* failed.
C15_Witness ==
    /\ CatalogFailed
    /\ net.catalog = 1
    /\ coingecko_map = EmptyMap
    /\ Len(missing) = 2
    /\ LastLogged = "Fatal Error: Could not fetch CoinGecko ID map"
    /\ map_file = <<>>
    /\ details_file = <<>>
    /\ asset_details = EmptyMap

\* C16: after the call returned because obtaining the catalog failed (at the
\* request, while reading the listing, or while saving the snapshot), the
\* canonical-id map is still not loaded, so that the next call with missing
\* codes fetches the full catalog again.
C16_CatalogStillNotLoaded ==
    CatalogFailed => coingecko_map = EmptyMap

\* An entry {name, icon_path} whose icon file exists.
Usable(c) ==
    /\ c \in DOMAIN asset_details
    /\ asset_details[c].icon_path # None
    /\ asset_details[c].icon_path \in icon_files

\* C17: if every base-currency code of the given symbols has an entry whose
\* icon file exists, the call returns immediately: no network call, no log
\* line, asset_details, the canonical-id map and both snapshot files unchanged.
C17_NothingMissing ==
    [][(/\ e_pc = "idle"
        /\ call_no' = call_no + 1
        /\ \A c \in BaseCurrenciesToCheck(e_symbols') : Usable(c)) =>
          /\ e_pc' = "idle"
          /\ NetTotal(net') = 0
          /\ e_log' = <<>>
          /\ n_saved' = 0
          /\ UNCHANGED <<asset_details, coingecko_map, map_file, details_file>>]_vars

\* C17 witness: the second call, for BTC alone, found its entry and its icon
\* file and returned at once.
C17_Witness ==
    /\ call_no = 2
    /\ e_pc = "idle"
    /\ e_symbols = {Symbol("BTC")}
    /\ Usable("BTC")
    /\ missing = <<>>
    /\ NetTotal(net) = 0
    /\ e_log = <<>>
    /\ details_file # <<>>

\* C18: when the call gets past the catalog step and has processed the
\* missing codes, every one of them has an entry in asset_details (the fetched
\* details or the fallback) and the whole store was persisted once, after the
\* last code, whatever the outcome for each code.
C18_EveryCodeStoredSavedOnce ==
    /\ \A c \in Processed :
          /\ c \in DOMAIN asset_details
          /\ \/ asset_details[c] = Fallback(c)
             \/ asset_details[c].name = CoinName(c)
    /\ n_saved <= 1
    /\ n_saved = 1 =>
          /\ e_pc = "idle"
          /\ e_i = Len(missing)
          /\ details_file = <<asset_details>>
    /\ (e_pc = "idle" /\ prev_processed /\ missing # <<>>) =>
          /\ n_saved = 1
          /\ e_i = Len(missing)

\* C18 witness: XYZ had no canonical id, BTC failed twice (a transient failure
\* and an icon download failure) and then succeeded, and the store was saved.
C18_Witness ==
    /\ e_pc = "idle"
    /\ prev_processed
    /\ missing = <<"XYZ", "BTC">>
    /\ net.detail["BTC"] = 3
    /\ net.icon = 2
    /\ n429["BTC"] = 0
    /\ asset_details["XYZ"] = Fallback("XYZ")
    /\ asset_details["BTC"].icon_path = IconPath("BTC")
    /\ n_saved = 1
    /\ details_file = <<asset_details>>

\* ========================================================================
\* Properties of the main window, continued (Spec, FairSpec)
\* ========================================================================
\* Thread t ran a scan whose symbol universe was empty.
EmptyScan(t) == threads[t].w_pc = "returned" /\ threads[t].universe = <<>>
Made(t, call) == \E i \in 1..Len(threads[t].calls) : threads[t].calls[i] = call
\* The slot call at the head of the main thread's queue is on_scan_complete
\* and this step runs it.
Commits == Posted("on_scan_complete") /\ main_queue' = Tail(main_queue)

\* C14: when the volume ranker yields an empty symbol universe the scan
\* aborts early: it logs, makes no metadata-cache call and no candle fetch and
\* returns an empty result; the completion handler changes no timeframe cache
\* entry, and the guard is released (the thread stops running).
C14_EmptyUniverseAborts ==
    /\ [](\A t \in ThreadIds : EmptyScan(t) =>
            /\ ~Made(t, "ensure_asset_details_are_loaded")
            /\ ~Made(t, "count_consecutive_candles")
            /\ ~Made(t, "progress")
            /\ threads[t].calls[Len(threads[t].calls)] = "log"
            /\ \A i \in 1..Len(main_queue) :
                  main_queue[i].thread = t =>
                      /\ main_queue[i].slot = "on_scan_complete" =>
                            DOMAIN main_queue[i].data = {}
                      /\ main_queue[i].slot = "report" =>
                            main_queue[i].data \in
                                {Reports(<<"Fetching top volume symbols from KuCoin...">>,
                                         NoValue),
                                 Reports(<<"Could not fetch top volume symbols. Aborting scan.">>,
                                         NoValue)})
    /\ [][(Commits /\ EmptyScan(Head(main_queue).thread)) =>
             cached_results' = cached_results]_vars
    /\ \A t \in ThreadIds : EmptyScan(t) ~> ~ThreadAlive(t)

\* C14 witness: the first scan found no symbols; its thread has finished, the
\* cache loaded at startup is as it was, the abort is in the log dialog's
\* lines of that scan, and a second scan has been started.
C14_Witness ==
    /\ EmptyScan(1)
    /\ threads[1].state = "finished"
    /\ cached_results \in InitialCaches \ {EmptyMap}
    /\ threads[2].state = "running"
    /\ threads[2].w_pc = "started"

\* C19: on_scan_complete for a scan of the timeframe set T leaves the cache
\* entry (timestamp and data) of every timeframe outside T unchanged, and
\* each entry it writes is replaced as a whole: timestamp and data together.
C19_CommitLeavesOthers ==
    [][Commits =>
          LET ev == Head(main_queue)
              T == threads[ev.thread].timeframes
          IN  /\ \A tf \in Timeframes \ T :
                    /\ tf \in DOMAIN cached_results' <=> tf \in DOMAIN cached_results
                    /\ tf \in DOMAIN cached_results =>
                          cached_results'[tf] = cached_results[tf]
              /\ DOMAIN cached_results \subseteq DOMAIN cached_results'
              /\ \A tf \in DOMAIN cached_results' :
                    (tf \notin DOMAIN cached_results
                        \/ cached_results'[tf] # cached_results[tf]) =>
                        /\ tf \in DOMAIN ev.data
                        /\ cached_results'[tf] =
                               [timestamp |-> now, data |-> ev.data[tf]]]_vars

\* C19 witness: a scan of a part of the timeframes has been committed at a
\* later minute than the entry of a timeframe it did not scan, which is
\* there with its older timestamp.
C19_Witness ==
    \E u \in ThreadIds :
        /\ threads[u].w_pc = "returned"
        /\ threads[u].timeframes # Timeframes
        /\ \A i \in 1..Len(main_queue) :
              ~(main_queue[i].thread = u /\ main_queue[i].slot = "on_scan_complete")
        /\ \E tf \in threads[u].timeframes, other \in Timeframes \ threads[u].timeframes :
              /\ tf \in DOMAIN cached_results
              /\ other \in DOMAIN cached_results
              /\ cached_results[tf].timestamp = now
              /\ cached_results[other].timestamp < now
              /\ cached_results[tf].data # <<>>
              /\ cached_results[tf].data[1].timeframe = tf

\* C20: a refresh request made while a scan is in flight (by the timer, or
\* one that starts a worker) is rejected without side effects: no worker is
\* started, and the progress bar value, the lines of the log dialog, the
\* refresh button state, cached_results and the timeframe sets of the running
\* workers are unchanged.
C20_RejectedWhileInFlight ==
    [][((\E t \in ThreadIds : ScanInFlight(t))
           /\ (now' # now \/ n_threads' # n_threads)) =>
          /\ n_threads' = n_threads
          /\ UNCHANGED <<progress_bar, log_dialog, refresh_enabled, cached_results>>
          /\ \A t \in ThreadIds :
                ScanInFlight(t) => threads'[t].timeframes = threads[t].timeframes]_vars

\* ========================================================================
\* Properties of the volume ranker (SpecRank)
\* ========================================================================
\* The instruments of the snapshot that qualify: quoted in USDT, with a
\* known 24h quote volume.
Known(ticker) == HasUsdtSettle(ticker.symbol) /\ ticker.quoteVolume # NoValue
QualifyingTickers == SelectSeq(rk_tickers.tickers, Known)
VolumeOf(symbol) ==
    LET i == CHOOSE k \in 1..Len(rk_tickers.tickers) : rk_tickers.tickers[k].symbol = symbol
    IN  rk_tickers.tickers[i].quoteVolume
Returned == {rk_symbols[i] : i \in 1..Len(rk_symbols)}
Min(a, b) == IF a < b THEN a ELSE b

\* C21: for every ticker snapshot and limit, fetch_top_volumes returns exactly
\* the first min(limit, q) symbols of the q qualifying instruments (quoted in
\* USDT, with a known 24h quote volume) ordered by volume descending; an
\* instrument whose volume is absent never appears, and fewer than limit
\* qualifying instruments give a shorter list.
C21_TopVolumes ==
    (rk_pc = "done" /\ ~rk_tickers.raised) =>
        LET q == Len(QualifyingTickers)
        IN  /\ Len(rk_symbols) = Min(rk_limit, q)
            /\ \A i, j \in 1..Len(rk_symbols) : rk_symbols[i] = rk_symbols[j] => i = j
            /\ \A i \in 1..Len(rk_symbols) :
                  \E k \in 1..q : QualifyingTickers[k].symbol = rk_symbols[i]
            /\ \A i, j \in 1..Len(rk_symbols) :
                  i < j => VolumeOf(rk_symbols[i])[1] >= VolumeOf(rk_symbols[j])[1]
            /\ \A k \in 1..q :
                  QualifyingTickers[k].symbol \notin Returned =>
                      \A i \in 1..Len(rk_symbols) :
                          VolumeOf(rk_symbols[i])[1] >= QualifyingTickers[k].quoteVolume[1]

\* ========================================================================
\* Properties of the grouped result (SpecScan)
\* ========================================================================
\* Worker.run has emitted the grouped result of the scan.
Emitted == sc_emitted # <<>>
\* The rows filed under timeframe tf, none when it has no key.
Bucket(tf) ==
    IF tf \in DOMAIN sc_emitted[1] THEN sc_emitted[1][tf] ELSE <<>>
\* The streak detected for symbol number i of the ranking in timeframe tf.
Detected(i, tf) == CountConsecutiveCandles(sc_answers[<<ScannedSymbols[i], tf>>])
\* The qualifying pairs of timeframe tf from symbol number i of the ranking
\* on, in the order of the ranking.
RECURSIVE QualifyingFrom(_, _)
QualifyingFrom(tf, i) ==
    IF i > Len(ScannedSymbols) THEN <<>>
    ELSE (IF Detected(i, tf).count >= min_streak_count
          THEN <<[symbol |-> ScannedSymbols[i], count |-> Detected(i, tf).count,
                  timeframe |-> tf, color |-> Detected(i, tf).color,
                  last_price |-> Detected(i, tf).last_close]>>
          ELSE <<>>) \o QualifyingFrom(tf, i + 1)

\* C22: the grouped result of a scan contains, for each requested timeframe,
\* exactly the (symbol, timeframe) pairs of the symbol universe whose detected
\* count is >= min_streak_count, each under its own timeframe only, in the
\* order of the volume ranking of their symbols; no pair with a smaller count
\* appears and no qualifying pair is missing.
C22_GroupedResult ==
    Emitted =>
        /\ \A tf \in DOMAIN sc_emitted[1] :
              \E j \in 1..Len(sc_timeframes) : sc_timeframes[j] = tf
        /\ \A j \in 1..Len(sc_timeframes) :
              Bucket(sc_timeframes[j]) = QualifyingFrom(sc_timeframes[j], 1)

\* C22 witness: two symbols were ranked and two timeframes requested; one
\* timeframe holds a row of each symbol, the other a row of the second symbol
\* only, the first symbol's streak there being too short.
C22_Witness ==
    /\ Emitted
    /\ Len(ScannedSymbols) = 2
    /\ Len(sc_timeframes) = 2
    /\ Len(Bucket(sc_timeframes[1])) = 2
    /\ Len(Bucket(sc_timeframes[2])) = 1
    /\ Bucket(sc_timeframes[2])[1].symbol = ScannedSymbols[2]
    /\ ~sc_answers[<<ScannedSymbols[1], sc_timeframes[2]>>].raised

\* ========================================================================
\* Properties of the progress reports (SpecScan)
\* ========================================================================
\* How many streak detections had returned before step number i of the scan.
CompletedBefore(i) == Len(SelectSeq(SubSeq(sc_result.trace, 1, i - 1), IsCountEv))

\* C23: progress is reported after each unit of work: every progress report
\* of a scan of S symbols and T timeframes carries total = S*T, and the
\* report (k, S*T) is made only after the streak detection of unit k has
\* returned, so that k units are completed when progress shows k/total.
C23_ProgressAfterEachUnit ==
    ScanLooped =>
        \A i \in 1..Len(sc_result.trace) :
            IsProgressEv(sc_result.trace[i]) =>
                /\ sc_result.trace[i].total = TotalUnits
                /\ CompletedBefore(i) = sc_result.trace[i].current

\* ========================================================================
\* Properties of the synchronization boundaries (SpecStale)
\* ========================================================================
\* Minute t is one minute after a close of a candle of tf: after a multiple
\* of the timeframe's duration.
AfterCandleClose(tf, t) == t % TimeframeDuration(tf) = 1

\* C24: a synchronization boundary is aligned to the timeframe's own candle
\* close: _get_current_sync_timeframes(now) contains a timeframe only when
\* now is one minute after a multiple of that timeframe's duration, so an
\* entry younger than its duration is reported due only then.
C24_SyncBoundaryAligned ==
    st_pc = "done" =>
        /\ \A tf \in st_sync : AfterCandleClose(tf, st_now)
        /\ \A tf \in st_tracked \cap DOMAIN st_cache :
              (tf \in st_stale /\ AgeOf(tf) < TimeframeDuration(tf)) =>
                  AfterCandleClose(tf, st_now)

\* ========================================================================
\* Properties of the retry delays (SpecEnrich)
\* ========================================================================
\* The call is about to make another attempt for `code`.
AttemptPending(code) ==
    e_pc = "attempt" /\ e_i < Len(missing) /\ missing[e_i + 1] = code

\* C25: delays of the retry policy, in whole tenths of a second: every
\* coin-detail attempt is preceded by a pacing delay of 12; a 429 response is
\* followed by a cooldown of 610; a transient failure on attempt n (n = 1, 2,
\* 3) is followed by a backoff of 50*n, and a backoff is taken only when
\* another attempt for the same asset follows it.
C25_RetryDelays ==
    /\ Len(SelectSeq(slept, LAMBDA d : d.kind = "pacing")) = NetTotal(net) - net.catalog - net.icon
    /\ Len(SelectSeq(slept, LAMBDA d : d.kind = "cooldown")) = n429["BTC"] + n429["XYZ"]
    /\ \A i \in 1..Len(slept) :
          /\ slept[i].kind = "pacing" => slept[i].tenths = 12
          /\ slept[i].kind = "cooldown" =>
                /\ slept[i].tenths = 610
                /\ slept[i - 1].kind = "pacing"
          /\ slept[i].kind = "backoff" =>
                /\ slept[i].attempt \in 1..3
                /\ slept[i].tenths = 50 * slept[i].attempt
                /\ slept[i - 1].kind = "pacing"
                /\ IF i < Len(slept)
                   THEN /\ slept[i + 1].kind = "pacing"
                        /\ slept[i + 1].code = slept[i].code
                   ELSE AttemptPending(slept[i].code)

\* ========================================================================
\* Properties of the due set (SpecStale)
\* ========================================================================
\* C26: the set returned by _get_stale_timeframes is always a subset of the
\* tracked timeframes (all_interval), whatever keys the loaded cache store
\* contains and whatever the current minute is.
C26_StaleWithinTracked ==
    st_pc = "done" => st_stale \subseteq st_tracked

====
